---- MODULE Spec2Model ----
(***************************************************************************)
(* Referral-graph derivation and view state of the genealogy network      *)
(* (src/src/components/GenealogyNetwork.tsx).                              *)
(*                                                                         *)
(* The contact list is the data returned by the contacts hook.  Contact    *)
(* ids are opaque keys, so the i-th contact of the list carries id i; the  *)
(* referrer of a contact may be any id (an earlier contact, a later one,   *)
(* the contact itself, or an id no contact of the list has), which makes   *)
(* every input order of every referral relation a reachable contact list.  *)
(*                                                                         *)
(* The edit dialog (EditContactDialog) exists in two copies: the one of    *)
(* src/unnamed/part_000 and the one that follows the genealogy network in  *)
(* src/src/components/GenealogyNetwork.tsx (from line 448).  The dialog    *)
(* that is opened is one of the two.                                       *)
(***************************************************************************)
EXTENDS Integers, Sequences, FiniteSets

\* ---- bounds of the model ------------------------------------------------
MaxContacts == 3
MaxRoots == 4
MaxInFlight == 2
MaxLevelInput == 2
StackLimit == 6

\* ---- values -------------------------------------------------------------
NULL == -1
RangeError == -2

Ids == 1..MaxContacts
UnknownId == MaxContacts + 1
ReferrerValues == Ids \cup {UnknownId, NULL}
LevelInputs == 0..MaxLevelInput
DefaultVisibleLevels == {0, 1, 2, 3, 4}

VARIABLES
  loading,           \* contactsLoading || cellsLoading
  contacts,          \* the contacts hook's list: <<[id, referred_by]>>
  renderError,       \* "none", or the error thrown while deriving the members
  connectedMembers,  \* useMemo result, MemberNode records
  standbyMembers,    \* useMemo result, MemberNode records
  expandedNodes,     \* Set<string>
  visibleLevels,     \* Set<number>
  focusedLevel       \* number | null

VARIABLES
  dialogSource,      \* the copy of EditContactDialog in use, "none" before the first open
  open,              \* prop open, owned by the parent
  contact,           \* prop contact
  context,           \* prop context: "cell" | "contacts"
  hasCallback,       \* prop onContactUpdated is provided
  form,              \* useState form
  saving,            \* useState saving
  pending,           \* the updateContact calls awaited by handlers, oldest first
  calls              \* toast / prop calls made by the last dialog step, in order

genealogyVars == <<loading, contacts, renderError, connectedMembers, standbyMembers,
                   expandedNodes, visibleLevels, focusedLevel>>

dialogVars == <<dialogSource, open, contact, context, hasCallback, form, saving,
                pending, calls>>

vars == <<loading, contacts, renderError, connectedMembers, standbyMembers,
          expandedNodes, visibleLevels, focusedLevel,
          dialogSource, open, contact, context, hasCallback, form, saving,
          pending, calls>>

\* ---- sequence helpers (Array.prototype; filter is SelectSeq) --------------
RECURSIVE SeqSum(_)
SeqSum(s) == IF s = <<>> THEN 0 ELSE Head(s) + SeqSum(Tail(s))

Slice(s, n) == SubSeq(s, 1, IF Len(s) < n THEN Len(s) ELSE n)

IdsOf(s) == {s[i].id : i \in DOMAIN s}

\* members.find(m => m.id === id): index of the first match, 0 for undefined
FindIndex(members, id) ==
  LET hits == {i \in DOMAIN members : members[i].id = id}
  IN IF hits = {} THEN 0 ELSE CHOOSE i \in hits : \A j \in hits : i <= j

\* ---- member projection ---------------------------------------------------
ProjectMember(c) ==
  [id |-> c.id,
   referredBy |-> c.referred_by,
   referrals |-> <<>>,
   level |-> 0,
   totalDescendants |-> 0]

ProjectMembers(cs) == [i \in DOMAIN cs |-> ProjectMember(cs[i])]

\* ---- graph derivation ----------------------------------------------------
\* `stack` is the room left on the call stack: a recursion that uses it up
\* throws RangeError.
\* a level that stops at the referrer instead of walking to the root
calculateMemberLevel_OneStep(memberId, members, stack) ==
  LET i == FindIndex(members, memberId) IN
  IF i = 0 \/ members[i].referredBy = NULL THEN 0 ELSE 1

RECURSIVE calculateMemberLevel(_, _, _)
calculateMemberLevel(memberId, members, stack) ==
  IF stack = 0 THEN RangeError
  ELSE LET i == FindIndex(members, memberId) IN
       IF i = 0 \/ members[i].referredBy = NULL THEN 0
       ELSE LET up == calculateMemberLevel(members[i].referredBy, members, stack - 1)
            IN IF up = RangeError THEN RangeError ELSE 1 + up

RECURSIVE calculateTotalDescendants(_, _, _)
calculateTotalDescendants(memberId, members, stack) ==
  IF stack = 0 THEN RangeError
  ELSE LET i == FindIndex(members, memberId) IN
       IF i = 0 THEN 0
       ELSE LET kids == members[i].referrals
                sub == [k \in DOMAIN kids |->
                          calculateTotalDescendants(kids[k], members, stack - 1)]
            IN IF \E k \in DOMAIN sub : sub[k] = RangeError THEN RangeError
               ELSE Len(kids) + SeqSum(sub)

\* a referral list collected from the end of the member list
ReferralsOf_Reversed(members, id) ==
  LET refersToId(m) == m.referredBy = id
      hits == SelectSeq(members, refersToId)
  IN [k \in DOMAIN hits |-> hits[Len(hits) + 1 - k].id]

ReferralsOf(members, id) ==
  LET refersToId(m) == m.referredBy = id
      hits == SelectSeq(members, refersToId)
  IN [k \in DOMAIN hits |-> hits[k].id]

\* allMembers.forEach(member => {...}) from index i on: the members before i
\* have their referrals filled, the members after i still have none.
RECURSIVE FillMembers(_, _)
FillMembers(members, i) ==
  IF i > Len(members) THEN members
  ELSE LET id == members[i].id
           withReferrals == [members EXCEPT ![i].referrals = ReferralsOf(members, id)]
           withLevel == [withReferrals EXCEPT
                           ![i].level = calculateMemberLevel(id, withReferrals, StackLimit)]
           filled == [withLevel EXCEPT
                        ![i].totalDescendants =
                            calculateTotalDescendants(id, withLevel, StackLimit)]
       IN FillMembers(filled, i + 1)

IsConnected(member) == member.referredBy # NULL \/ Len(member.referrals) > 0

\* a standby test that forgets the member's own referrer
IsStandby_ReferralsOnly(member) == Len(member.referrals) = 0

IsStandby(member) == member.referredBy = NULL /\ Len(member.referrals) = 0

\* the useMemo producing {connectedMembers, standbyMembers}
DeriveMembers(isLoading, cs) ==
  IF isLoading \/ Len(cs) = 0
  THEN [threw |-> FALSE, connected |-> <<>>, standby |-> <<>>]
  ELSE LET allMembers == FillMembers(ProjectMembers(cs), 1)
           overflow == \E i \in DOMAIN allMembers :
                          \/ allMembers[i].level = RangeError
                          \/ allMembers[i].totalDescendants = RangeError
       IN IF overflow
          THEN [threw |-> TRUE, connected |-> <<>>, standby |-> <<>>]
          ELSE [threw |-> FALSE,
                connected |-> SelectSeq(allMembers, IsConnected),
                standby |-> SelectSeq(allMembers, IsStandby)]

IsRoot(member) == member.referredBy = NULL

\* an effect that expands every root
InitialExpansion_AllRoots(connected, expanded) ==
  IF Len(connected) > 0
  THEN IdsOf(SelectSeq(connected, IsRoot))
  ELSE expanded

\* the useEffect on connectedMembers
InitialExpansion(connected, expanded) ==
  IF Len(connected) > 0
  THEN IdsOf(Slice(SelectSeq(connected, IsRoot), 3))
  ELSE expanded

\* ---- rendering -----------------------------------------------------------
\* One render pass after the hook's data changed.  An error thrown while
\* deriving the members unmounts the component: its view state is lost and
\* the next mount starts from the defaults.
Render(isLoading, cs) ==
  LET d == DeriveMembers(isLoading, cs) IN
  IF d.threw
  THEN /\ renderError' = "RangeError"
       /\ connectedMembers' = <<>>
       /\ standbyMembers' = <<>>
       /\ expandedNodes' = {}
       /\ visibleLevels' = DefaultVisibleLevels
       /\ focusedLevel' = NULL
  ELSE /\ renderError' = "none"
       /\ connectedMembers' = d.connected
       /\ standbyMembers' = d.standby
       /\ expandedNodes' = InitialExpansion(d.connected, expandedNodes)
       /\ UNCHANGED <<visibleLevels, focusedLevel>>

\* ---- edit dialog: values --------------------------------------------------
\* form.referred_by holds a contact id, 'no-referral' or ''
NO_REFERRAL == -3
EMPTY_REF == -4

DialogSources == {"part_000", "GenealogyNetwork.tsx"}
Contexts == {"cell", "contacts"}
Statuses == {"visitor", "member", "pending"}

\* a missing id is NULL, a missing name, cell or other text is ""
NoContact ==
  [id |-> NULL, name |-> "", whatsapp |-> "", neighborhood |-> "",
   status |-> "pending", cell_id |-> "", referred_by |-> NULL]

\* the records a parent opens the dialog with
\* complete records of every status, with and without a cell, and records
\* that lack the id, the name or both
ContactRecords ==
  [id : {1}, name : {"Ana"}, whatsapp : {"w"}, neighborhood : {"Centro"},
   status : Statuses, cell_id : {"", "c1"}, referred_by : {NULL}]
  \cup
  {[id |-> i, name |-> n, whatsapp |-> "w", neighborhood |-> "Centro",
    status |-> "pending", cell_id |-> "", referred_by |-> NULL] :
     <<i, n>> \in {<<NULL, "Ana">>, <<1, "">>, <<NULL, "">>}}

\* the record of the i-th contact of the list, as the list page passes it
ListContact(i) ==
  [id |-> contacts[i].id, name |-> "Ana", whatsapp |-> "w", neighborhood |-> "Centro",
   status |-> "pending", cell_id |-> "", referred_by |-> contacts[i].referred_by]

EmptyForm ==
  [name |-> "", whatsapp |-> "", neighborhood |-> "", cell_id |-> "",
   referred_by |-> EMPTY_REF]

\* the form the useEffect loads from the contact
FormOf(c) ==
  [name |-> c.name, whatsapp |-> c.whatsapp, neighborhood |-> c.neighborhood,
   cell_id |-> c.cell_id,
   referred_by |-> IF c.referred_by = NULL THEN EMPTY_REF ELSE c.referred_by]

\* s without its i-th element
RemoveAt(s, i) == SubSeq(s, 1, i - 1) \o SubSeq(s, i + 1, Len(s))

Init ==
  /\ loading = TRUE
  /\ contacts = <<>>
  /\ renderError = "none"
  /\ connectedMembers = <<>>
  /\ standbyMembers = <<>>
  /\ expandedNodes = {}
  /\ visibleLevels = DefaultVisibleLevels
  /\ focusedLevel = NULL
  /\ dialogSource = "none"
  /\ open = FALSE
  /\ contact = NoContact
  /\ context = "contacts"
  /\ hasCallback = FALSE
  /\ form = EmptyForm
  /\ saving = FALSE
  /\ pending = <<>>
  /\ calls = <<>>

\* ---- the hooks' data changes ---------------------------------------------
ContactsLoaded ==
  /\ loading
  /\ loading' = FALSE
  /\ UNCHANGED contacts
  /\ UNCHANGED dialogVars
  /\ Render(FALSE, contacts)

ContactAdded(referrer) ==
  /\ ~loading
  /\ Len(contacts) < MaxContacts
  /\ contacts' = Append(contacts, [id |-> Len(contacts) + 1, referred_by |-> referrer])
  /\ UNCHANGED loading
  /\ UNCHANGED dialogVars
  /\ Render(loading, contacts')

ContactUpdated(i, referrer) ==
  /\ ~loading
  /\ i \in DOMAIN contacts
  /\ contacts[i].referred_by # referrer
  /\ contacts' = [contacts EXCEPT ![i].referred_by = referrer]
  /\ UNCHANGED loading
  /\ UNCHANGED dialogVars
  /\ Render(loading, contacts')

\* ---- refetched lists -------------------------------------------------------
\* the j-th smallest element of S
Rank(S, j) == CHOOSE r \in S : Cardinality({x \in S : x < r}) = j - 1

\* k contacts without referrer, those of withChild having one referral each;
\* the referred contacts come after the roots or, childrenFirst, before them
FamilyList(k, withChild, childrenFirst) ==
  LET c == Cardinality(withChild) IN
  IF childrenFirst
  THEN [i \in 1..(c + k) |->
          IF i <= c THEN [id |-> i, referred_by |-> c + Rank(withChild, i)]
          ELSE [id |-> i, referred_by |-> NULL]]
  ELSE [i \in 1..(k + c) |->
          IF i <= k THEN [id |-> i, referred_by |-> NULL]
          ELSE [id |-> i, referred_by |-> Rank(withChild, i - k)]]

FetchedLists ==
  UNION {{FamilyList(k, S, f) : S \in SUBSET (1..k), f \in BOOLEAN} : k \in 0..MaxRoots}

\* the hook delivers a refetched list (a new array, the same content or not)
ContactsFetched(cs) ==
  /\ ~loading
  /\ contacts' = cs
  /\ UNCHANGED loading
  /\ UNCHANGED dialogVars
  /\ Render(loading, contacts')

\* ---- view ----------------------------------------------------------------
\* the controls and the graph are on screen
Mounted ==
  /\ ~loading
  /\ renderError = "none"
  /\ Len(connectedMembers) + Len(standbyMembers) > 0

\* a filter that shows a member only when the member itself is expanded
visibleMembersOf_OwnExpansionOnly(connected, expanded, levels, focused) ==
  LET show(member) ==
        LET shouldShowByLevel == member.level \in levels
            shouldShowByExpansion == member.level = 0 \/ member.id \in expanded
        IN IF focused # NULL THEN member.level = focused
           ELSE shouldShowByLevel /\ shouldShowByExpansion
  IN SelectSeq(connected, show)

\* a filter whose focus still applies the visible-level set
visibleMembersOf_FocusWithinLevels(connected, expanded, levels, focused) ==
  LET show(member) ==
        LET shouldShowByLevel == member.level \in levels
            shouldShowByExpansion ==
              \/ member.level = 0
              \/ member.id \in expanded
              \/ (member.referredBy # NULL /\ member.referredBy \in expanded)
        IN IF focused # NULL THEN member.level = focused /\ shouldShowByLevel
           ELSE shouldShowByLevel /\ shouldShowByExpansion
  IN SelectSeq(connected, show)

\* a filter that hides an expanded member whose referrer is collapsed
visibleMembersOf_HidesExpanded(connected, expanded, levels, focused) ==
  LET show(member) ==
        LET shouldShowByLevel == member.level \in levels
            shouldShowByExpansion ==
              \/ member.level = 0
              \/ (member.id \notin expanded
                    /\ member.referredBy # NULL /\ member.referredBy \in expanded)
        IN IF focused # NULL THEN member.level = focused
           ELSE shouldShowByLevel /\ shouldShowByExpansion
  IN SelectSeq(connected, show)

\* a filter that shows a member below the roots only through its referrer
visibleMembersOf_ParentExpansionOnly(connected, expanded, levels, focused) ==
  LET show(member) ==
        LET shouldShowByLevel == member.level \in levels
            shouldShowByExpansion ==
              \/ member.level = 0
              \/ (member.referredBy # NULL /\ member.referredBy \in expanded)
        IN IF focused # NULL THEN member.level = focused
           ELSE shouldShowByLevel /\ shouldShowByExpansion
  IN SelectSeq(connected, show)

visibleMembersOf(connected, expanded, levels, focused) ==
  LET show(member) ==
        LET shouldShowByLevel == member.level \in levels
            shouldShowByExpansion ==
              \/ member.level = 0
              \/ member.id \in expanded
              \/ (member.referredBy # NULL /\ member.referredBy \in expanded)
        IN IF focused # NULL THEN member.level = focused
           ELSE shouldShowByLevel /\ shouldShowByExpansion
  IN SelectSeq(connected, show)

visibleMembers ==
  visibleMembersOf(connectedMembers, expandedNodes, visibleLevels, focusedLevel)

nodes == IdsOf(visibleMembers)

\* an edge test that does not look for the referrer among the rendered members
HasEdge_AnyReferrer(member, visible) == member.referredBy # NULL

\* an edge test that looks for the referrer among all connected members
HasEdge_AmongConnected(member, visible) ==
  member.referredBy # NULL /\ FindIndex(connectedMembers, member.referredBy) # 0

HasEdge(member, visible) ==
  member.referredBy # NULL /\ FindIndex(visible, member.referredBy) # 0

edgesOf(visible) ==
  LET hasEdge(member) == HasEdge(member, visible)
      linked == SelectSeq(visible, hasEdge)
  IN [k \in DOMAIN linked |->
        [source |-> linked[k].referredBy, target |-> linked[k].id]]

edges == edgesOf(visibleMembers)

\* ---- layout --------------------------------------------------------------
baseY == 40
levelSpacing == 120
siblingSpacing == 200

\* array.findIndex: 0-based index of the first match
FindIndex0(members, id) == FindIndex(members, id) - 1

\* a layout that takes every rendered member of the level as a sibling
calculateCompactPosition_ByLevelOnly(member, allMembers) ==
  LET sameLevel(m) == m.level = member.level
      siblings == SelectSeq(allMembers, sameLevel)
      siblingIndex == FindIndex0(siblings, member.id)
      levelWidth == IF Len(siblings) > 1 THEN Len(siblings) ELSE 1
      centerOffset == ((2 * siblingIndex - (levelWidth - 1)) * siblingSpacing) \div 2
      levelIndent == member.level * 20
  IN [x |-> 300 + centerOffset - levelIndent,
      y |-> baseY + member.level * levelSpacing]

\* (siblingIndex - (levelWidth - 1) / 2) * siblingSpacing is a whole number,
\* siblingSpacing being even; it is computed here without the half.
calculateCompactPosition(member, allMembers) ==
  LET isSibling(m) == m.referredBy = member.referredBy /\ m.level = member.level
      siblings == SelectSeq(allMembers, isSibling)
      siblingIndex == FindIndex0(siblings, member.id)
      levelWidth == IF Len(siblings) > 1 THEN Len(siblings) ELSE 1
      centerOffset == ((2 * siblingIndex - (levelWidth - 1)) * siblingSpacing) \div 2
      levelIndent == member.level * 20
  IN [x |-> 300 + centerOffset - levelIndent,
      y |-> baseY + member.level * levelSpacing]

\* the position of each rendered node, in the order of visibleMembers
nodePositions ==
  [k \in DOMAIN visibleMembers |->
     calculateCompactPosition(visibleMembers[k], visibleMembers)]

\* a toggle that flips any id, leaves and unknown ids included
toggleNodeExpansionCallback_AnyId(nodeId) ==
  /\ Mounted
  /\ expandedNodes' = IF nodeId \in expandedNodes
                      THEN expandedNodes \ {nodeId}
                      ELSE expandedNodes \cup {nodeId}
  /\ UNCHANGED <<dialogVars, loading, contacts, renderError, connectedMembers, standbyMembers,
                 visibleLevels, focusedLevel>>

\* a toggle that only ever adds the id
toggledExpansion_AddOnly(connected, expanded, nodeId) ==
  LET i == FindIndex(connected, nodeId) IN
  IF i # 0 /\ Len(connected[i].referrals) > 0
  THEN expanded \cup {nodeId}
  ELSE expanded

\* the expanded set toggleNodeExpansionCallback(nodeId) leaves behind
toggledExpansion(connected, expanded, nodeId) ==
  LET i == FindIndex(connected, nodeId) IN
  IF i # 0 /\ Len(connected[i].referrals) > 0
  THEN IF nodeId \in expanded
       THEN expanded \ {nodeId}
       ELSE expanded \cup {nodeId}
  ELSE expanded

toggleNodeExpansionCallback(nodeId) ==
  /\ Mounted
  /\ expandedNodes' = toggledExpansion(connectedMembers, expandedNodes, nodeId)
  /\ UNCHANGED <<dialogVars, loading, contacts, renderError, connectedMembers, standbyMembers,
                 visibleLevels, focusedLevel>>

\* the visible-level set toggleLevel(level) leaves behind
toggledLevels(levels, level) ==
  IF level \in levels THEN levels \ {level} ELSE levels \cup {level}

\* a level toggle that also gives up the focus
toggleLevel_DropsFocus(level) ==
  /\ Mounted
  /\ visibleLevels' = toggledLevels(visibleLevels, level)
  /\ focusedLevel' = NULL
  /\ UNCHANGED <<dialogVars, loading, contacts, renderError, connectedMembers, standbyMembers,
                 expandedNodes>>

toggleLevel(level) ==
  /\ Mounted
  /\ visibleLevels' = toggledLevels(visibleLevels, level)
  /\ UNCHANGED <<dialogVars, loading, contacts, renderError, connectedMembers, standbyMembers,
                 expandedNodes, focusedLevel>>

\* a focus that expands the members of the level but not their referrers
focusOnLevel_NoReferrers(level) ==
  /\ Mounted
  /\ focusedLevel' = level
  /\ IF level # NULL
     THEN LET atLevel(m) == m.level = level
              levelMembers == SelectSeq(connectedMembers, atLevel)
          IN expandedNodes' = expandedNodes \cup IdsOf(levelMembers)
     ELSE UNCHANGED expandedNodes
  /\ UNCHANGED <<dialogVars, loading, contacts, renderError, connectedMembers, standbyMembers,
                 visibleLevels>>

focusOnLevel(level) ==
  /\ Mounted
  /\ focusedLevel' = level
  /\ IF level # NULL
     THEN LET atLevel(m) == m.level = level
              levelMembers == SelectSeq(connectedMembers, atLevel)
          IN expandedNodes' =
               (expandedNodes \cup IdsOf(levelMembers))
                 \cup {levelMembers[k].referredBy :
                         k \in {j \in DOMAIN levelMembers : levelMembers[j].referredBy # NULL}}
     ELSE UNCHANGED expandedNodes
  /\ UNCHANGED <<dialogVars, loading, contacts, renderError, connectedMembers, standbyMembers,
                 visibleLevels>>

ExpandAll ==
  /\ Mounted
  /\ expandedNodes' = IdsOf(connectedMembers)
  /\ UNCHANGED <<dialogVars, loading, contacts, renderError, connectedMembers, standbyMembers,
                 visibleLevels, focusedLevel>>

CollapseAll ==
  /\ Mounted
  /\ expandedNodes' = IdsOf(SelectSeq(connectedMembers, IsRoot))
  /\ UNCHANGED <<dialogVars, loading, contacts, renderError, connectedMembers, standbyMembers,
                 visibleLevels, focusedLevel>>

\* ---- edit dialog ----------------------------------------------------------
\* The hooks of the dialog return arrays (possibly empty) for neighborhoods
\* and cities, so the "Carregando..." branch of part_000 is never taken.

\* part_000 refuses a contact without id or name; the other copy has no check
ContactComplete(src, c) ==
  src = "part_000" => (c.id # NULL /\ c.name # "")

\* the edit form, with its fields and footer buttons, is on screen
FormShown == open /\ ContactComplete(dialogSource, contact)

\* the parent opens the dialog on a contact; the useEffect loads the form
OpenDialog(src, c, ctx, cb) ==
  /\ ~open
  /\ dialogSource \in {"none", src}
  /\ dialogSource' = src
  /\ open' = TRUE
  /\ contact' = c
  /\ context' = ctx
  /\ hasCallback' = cb
  /\ IF src = "part_000"
     THEN IF c.id = NULL \/ c.name = ""
          THEN /\ form' = form
               /\ calls' = <<"toast: Dados do contato incompletos">>
          ELSE /\ form' = FormOf(c)
               /\ calls' = <<>>
     ELSE \* deps [contact, neighborhoods]: the same object does not reload
          /\ form' \in (IF c = contact THEN {form} ELSE {}) \cup {FormOf(c)}
          /\ calls' = <<>>
  /\ UNCHANGED <<saving, pending, genealogyVars>>

showTransformButton == context = "cell" /\ contact.status = "visitor"

showTransferButton ==
  /\ contact.status = "member"
  /\ contact.cell_id # form.cell_id
  /\ form.cell_id # ""

showCellField ==
  contact.status = "member" \/ context = "contacts" \/ contact.status = "pending"

\* setForm(f => ({ ...f, [field]: value })), from an input or from
\* ReferralAndCellFields through updateFormData
updateFormData(field, value) ==
  /\ FormShown
  /\ field \in {"cell_id", "referred_by"} => showCellField
  /\ form[field] # value
  /\ form' = [form EXCEPT ![field] = value]
  /\ calls' = <<>>
  /\ UNCHANGED <<dialogSource, open, contact, context, hasCallback, saving, pending,
                 genealogyVars>>

\* choosing a city clears the neighborhood
SelectCity ==
  /\ FormShown
  /\ form.neighborhood # ""
  /\ form' = [form EXCEPT !.neighborhood = ""]
  /\ calls' = <<>>
  /\ UNCHANGED <<dialogSource, open, contact, context, hasCallback, saving, pending,
                 genealogyVars>>

\* the Cancelar button
Cancel ==
  /\ FormShown
  /\ ~saving
  /\ open' = FALSE
  /\ calls' = <<"onOpenChange(false)">>
  /\ UNCHANGED <<dialogSource, contact, context, hasCallback, form, saving, pending,
                 genealogyVars>>

\* Dialog's own onOpenChange(false): Esc, the overlay, the close icon
Dismiss ==
  /\ open
  /\ open' = FALSE
  /\ calls' = <<"onOpenChange(false)">>
  /\ UNCHANGED <<dialogSource, contact, context, hasCallback, form, saving, pending,
                 genealogyVars>>

\* a validation that asks for the name only
requiredFieldsMissing_NameOnly(f) == f.name = ""

requiredFieldsMissing(f) ==
  f.name = "" \/ f.whatsapp = "" \/ f.neighborhood = ""

\* a status that never goes back to pending
newStatusOf_NeverPending(c, f) ==
  IF f.cell_id # "" /\ f.cell_id # c.cell_id THEN "member"
  ELSE c.status

newStatusOf(c, f) ==
  IF f.cell_id # "" /\ f.cell_id # c.cell_id THEN "member"
  ELSE IF f.cell_id = "" /\ c.cell_id # "" THEN "pending"
  ELSE c.status

referredByValueOf(f) ==
  IF f.referred_by # EMPTY_REF /\ f.referred_by # NO_REFERRAL
  THEN f.referred_by ELSE NULL

updateDataOf(c, f) ==
  [name |-> f.name, whatsapp |-> f.whatsapp, neighborhood |-> f.neighborhood,
   status |-> newStatusOf(c, f), cell_id |-> f.cell_id,
   referred_by |-> referredByValueOf(f)]

\* handleSave up to its await
handleSave ==
  /\ FormShown
  /\ ~saving
  /\ IF requiredFieldsMissing(form)
     THEN /\ calls' = <<"toast: preencha todos os campos obrigatorios">>
          /\ UNCHANGED <<saving, pending>>
     ELSE /\ Len(pending) < MaxInFlight
          /\ saving' = TRUE
          /\ pending' = Append(pending,
                                [handler |-> "handleSave", contact |-> contact, callback |-> hasCallback,
                                 data |-> updateDataOf(contact, form)])
          /\ calls' = <<"updateContact">>
  /\ UNCHANGED <<dialogSource, open, contact, context, hasCallback, form,
                 genealogyVars>>

\* handleTransformToMember up to its await
handleTransformToMember ==
  /\ FormShown
  /\ showTransformButton
  /\ ~saving
  /\ Len(pending) < MaxInFlight
  /\ saving' = TRUE
  /\ pending' = Append(pending,
                        [handler |-> "handleTransformToMember", contact |-> contact, callback |-> hasCallback,
                         data |-> [status |-> "member"]])
  /\ calls' = <<"updateContact">>
  /\ UNCHANGED <<dialogSource, open, contact, context, hasCallback, form,
                 genealogyVars>>

\* a transfer that does not raise the saving flag
handleTransferCell_NoSavingFlag ==
  /\ FormShown
  /\ showTransferButton
  /\ ~saving
  /\ Len(pending) < MaxInFlight
  /\ UNCHANGED saving
  /\ pending' = Append(pending,
                        [handler |-> "handleTransferCell", contact |-> contact, callback |-> hasCallback,
                         data |-> [cell_id |-> form.cell_id,
                                   status |-> IF form.cell_id # "" THEN "member"
                                              ELSE "pending"]])
  /\ calls' = <<"updateContact">>
  /\ UNCHANGED <<dialogSource, open, contact, context, hasCallback, form,
                 genealogyVars>>

\* handleTransferCell up to its await
handleTransferCell ==
  /\ FormShown
  /\ showTransferButton
  /\ ~saving
  /\ Len(pending) < MaxInFlight
  /\ saving' = TRUE
  /\ pending' = Append(pending,
                        [handler |-> "handleTransferCell", contact |-> contact, callback |-> hasCallback,
                         data |-> [cell_id |-> form.cell_id,
                                   status |-> IF form.cell_id # "" THEN "member"
                                              ELSE "pending"]])
  /\ calls' = <<"updateContact">>
  /\ UNCHANGED <<dialogSource, open, contact, context, hasCallback, form,
                 genealogyVars>>

\* the i-th awaited update succeeds: callback, close, finally
UpdateResolves(i) ==
  /\ i \in DOMAIN pending
  /\ calls' = (IF pending[i].callback THEN <<"onContactUpdated">> ELSE <<>>)
                \o <<"onOpenChange(false)">>
  /\ open' = FALSE
  /\ saving' = FALSE
  /\ pending' = RemoveAt(pending, i)
  /\ UNCHANGED <<dialogSource, contact, context, hasCallback, form, genealogyVars>>

failureToast(handler) ==
  IF handler = "handleSave" THEN "toast: Erro ao atualizar contato"
  ELSE IF handler = "handleTransformToMember"
       THEN "toast: Erro ao transformar visitante em membro"
       ELSE "toast: Erro ao transferir membro para celula"

\* a failure handling that also closes the dialog
UpdateRejects_Closes(i) ==
  /\ i \in DOMAIN pending
  /\ calls' = <<failureToast(pending[i].handler), "onOpenChange(false)">>
  /\ open' = FALSE
  /\ saving' = FALSE
  /\ pending' = RemoveAt(pending, i)
  /\ UNCHANGED <<dialogSource, contact, context, hasCallback, form, genealogyVars>>

\* the i-th awaited update fails: catch, finally
UpdateRejects(i) ==
  /\ i \in DOMAIN pending
  /\ calls' = <<failureToast(pending[i].handler)>>
  /\ saving' = FALSE
  /\ pending' = RemoveAt(pending, i)
  /\ UNCHANGED <<dialogSource, open, contact, context, hasCallback, form,
                 genealogyVars>>

Next ==
  \/ ContactsLoaded
  \/ \E r \in ReferrerValues : ContactAdded(r)
  \/ \E i \in Ids, r \in ReferrerValues : ContactUpdated(i, r)
  \/ \E n \in Ids \cup {UnknownId} : toggleNodeExpansionCallback(n)
  \/ \E l \in LevelInputs : toggleLevel(l)
  \/ \E l \in LevelInputs \cup {NULL} : focusOnLevel(l)
  \/ ExpandAll
  \/ CollapseAll

Spec == Init /\ [][Next]_vars

\* The derivation alone: the hooks' data changes while the user leaves the
\* view controls untouched.
NextData ==
  \/ ContactsLoaded
  \/ \E r \in ReferrerValues : ContactAdded(r)
  \/ \E i \in Ids, r \in ReferrerValues : ContactUpdated(i, r)

SpecData == Init /\ [][NextData]_vars

\* The edit dialog alone, opened by a parent on records of its own.
FormInputs ==
  {<<"name", "">>, <<"name", "Ana">>, <<"whatsapp", "">>, <<"whatsapp", "w">>,
   <<"neighborhood", "">>, <<"neighborhood", "Centro">>,
   <<"cell_id", "">>, <<"cell_id", "c1">>, <<"cell_id", "c2">>}

NextDialog ==
  \/ \E src \in DialogSources, c \in ContactRecords, ctx \in Contexts, cb \in BOOLEAN :
       OpenDialog(src, c, ctx, cb)
  \/ \E u \in FormInputs : updateFormData(u[1], u[2])
  \/ SelectCity
  \/ Cancel
  \/ Dismiss
  \/ handleSave
  \/ handleTransformToMember
  \/ handleTransferCell
  \/ \E i \in 1..MaxInFlight : UpdateResolves(i)
  \/ \E i \in 1..MaxInFlight : UpdateRejects(i)

SpecDialog == Init /\ [][NextDialog]_vars

\* The contacts page: contacts are added to the list, the dialog is opened on
\* a contact of the list and its referrer is edited and saved.
NextReferral ==
  \/ ContactsLoaded
  \/ \E r \in ReferrerValues : ContactAdded(r)
  \/ \E src \in DialogSources, i \in DOMAIN contacts :
       OpenDialog(src, ListContact(i), "contacts", FALSE)
  \/ \E v \in IdsOf(contacts) \cup {NO_REFERRAL} : updateFormData("referred_by", v)
  \/ handleSave
  \/ \E i \in 1..MaxInFlight : UpdateResolves(i)
  \/ \E i \in 1..MaxInFlight : UpdateRejects(i)

SpecReferral == Init /\ [][NextReferral]_vars

\* Refetches of whole lists with up to MaxRoots roots, between which the
\* user expands and collapses nodes.
FetchedIds == 1..(2 * MaxRoots)

NextExpansion ==
  \/ ContactsLoaded
  \/ \E cs \in FetchedLists : ContactsFetched(cs)
  \/ \E n \in FetchedIds : toggleNodeExpansionCallback(n)
  \/ ExpandAll
  \/ CollapseAll

SpecExpansion == Init /\ [][NextExpansion]_vars

TypeOK ==
  /\ loading \in BOOLEAN
  /\ renderError \in {"none", "RangeError"}
  /\ expandedNodes \subseteq Ids \cup {UnknownId}
  /\ visibleLevels \subseteq 0..4
  /\ focusedLevel \in LevelInputs \cup {NULL}

\* ---- the referral relation of the contact list ---------------------------
Members == {connectedMembers[i] : i \in DOMAIN connectedMembers}
             \cup {standbyMembers[i] : i \in DOMAIN standbyMembers}

Derived == ~loading /\ renderError = "none" /\ Len(contacts) > 0

ReferrerOf(id) ==
  LET hits == {i \in DOMAIN contacts : contacts[i].id = id}
  IN IF hits = {} THEN NULL ELSE contacts[CHOOSE i \in hits : TRUE].referred_by

\* the referrer chain of `from` reaches `target` in at most `steps` links
RECURSIVE ChainReaches(_, _, _)
ChainReaches(from, target, steps) ==
  /\ steps > 0
  /\ ReferrerOf(from) # NULL
  /\ \/ ReferrerOf(from) = target
     \/ ChainReaches(ReferrerOf(from), target, steps - 1)

Subtree(id) == {c \in IdsOf(contacts) : ChainReaches(c, id, Len(contacts))}

HasCycle == \E c \in IdsOf(contacts) : ChainReaches(c, c, Len(contacts))

\* C1: every derived member's stored totalDescendants equals the number of
\* members in its full transitive referral subtree, whatever the input order.
C1_DescendantsAreSubtreeSize ==
  Derived => \A m \in Members : m.totalDescendants = Cardinality(Subtree(m.id))

\* C2: every derived member's level is a non-negative integer, 0 without a
\* referrer and 1 + the referrer's level with one.
C2_LevelIsDepth ==
  Derived =>
    \A m \in Members :
      /\ m.level \in Nat
      /\ m.referredBy = NULL => m.level = 0
      /\ \A r \in Members : m.referredBy = r.id => m.level = 1 + r.level

C2_Witness ==
  /\ Derived
  /\ \E m, r \in Members : m.referredBy = r.id /\ r.referredBy # NULL /\ m.level >= 2

\* C3: a contact list whose referral relation has a cycle (a self-referral
\* included) is reported as a data-integrity error; the recursion does not
\* run until the call stack is used up.
C3_CycleIsReported ==
  (~loading /\ HasCycle) => renderError = "DataIntegrityError"

\* C4: after the derivation of a loaded, non-empty contact list the connected
\* and the standby list are disjoint and together hold every contact once.
C4_Partition ==
  Derived =>
    /\ IdsOf(connectedMembers) \cap IdsOf(standbyMembers) = {}
    /\ IdsOf(connectedMembers) \cup IdsOf(standbyMembers) = IdsOf(contacts)
    /\ Len(connectedMembers) + Len(standbyMembers) = Len(contacts)

C4_Witness ==
  /\ Derived
  /\ Len(connectedMembers) >= 2
  /\ Len(standbyMembers) >= 1

\* C5: a connected member has a referrer that is a member of the list or has
\* at least one referral; a standby member has neither.
C5_ConnectedHasEdge ==
  Derived =>
    /\ \A m \in {connectedMembers[i] : i \in DOMAIN connectedMembers} :
         \/ m.referredBy \in IdsOf(contacts)
         \/ \E c \in IdsOf(contacts) : ReferrerOf(c) = m.id
    /\ \A m \in {standbyMembers[i] : i \in DOMAIN standbyMembers} :
         /\ m.referredBy \notin IdsOf(contacts)
         /\ ~\E c \in IdsOf(contacts) : ReferrerOf(c) = m.id

\* ---- the rendered graph --------------------------------------------------
Connected == {connectedMembers[i] : i \in DOMAIN connectedMembers}

Rendered == {visibleMembers[i] : i \in DOMAIN visibleMembers}

\* C6: with no focused level a connected member is rendered exactly when its
\* level is visible and it is a root, is expanded, or has an expanded referrer.
C6_VisibleByLevelAndExpansion ==
  (Mounted /\ focusedLevel = NULL) =>
    \A m \in Connected :
      m.id \in nodes <=>
        /\ m.level \in visibleLevels
        /\ \/ m.level = 0
           \/ m.id \in expandedNodes
           \/ m.referredBy \in expandedNodes

C6_Witness ==
  /\ Mounted
  /\ focusedLevel = NULL
  /\ \E m \in Connected :
       m.level > 0 /\ m.id \notin expandedNodes /\ m.referredBy \in expandedNodes
         /\ m.id \in nodes
  /\ \E m \in Connected : m.level \in visibleLevels /\ m.id \notin nodes
  /\ \E m \in Connected : m.level \notin visibleLevels /\ m.id \in expandedNodes

\* C7: with a focused level L the rendered nodes are exactly the connected
\* members at level L, whatever the expanded set and the visible-level set hold.
C7_FocusShowsExactlyLevel ==
  (Mounted /\ focusedLevel # NULL) =>
    nodes = {m.id : m \in {c \in Connected : c.level = focusedLevel}}

C7_Witness ==
  /\ Mounted
  /\ focusedLevel # NULL
  /\ focusedLevel \notin visibleLevels
  /\ \E m \in Connected :
       m.level = focusedLevel /\ m.id \notin expandedNodes
         /\ m.referredBy \notin expandedNodes
  /\ \E m \in Connected : m.level # focusedLevel /\ m.id \in expandedNodes

\* C8: every rendered edge joins two rendered nodes, and a rendered member
\* whose referrer is rendered has exactly one edge referrer -> member.
C8_EdgesJoinRenderedNodes ==
  /\ \A k \in DOMAIN edges : edges[k].source \in nodes /\ edges[k].target \in nodes
  /\ \A m \in Rendered :
       m.referredBy \in nodes =>
         Cardinality({k \in DOMAIN edges :
                        edges[k] = [source |-> m.referredBy, target |-> m.id]}) = 1

C8_Witness ==
  /\ Mounted
  /\ Len(edges) >= 1
  /\ \E m \in Rendered : m.referredBy # NULL /\ m.referredBy \notin nodes

\* C9: the expansion toggle on id n flips the membership of n in the expanded
\* set when n is a member with at least one referral, and leaves the expanded
\* set as it is for a leaf and for an unknown id.
C9_ToggleOnlyWithReferrals ==
  [][\A n \in Ids \cup {UnknownId} :
       toggleNodeExpansionCallback(n) =>
         IF n \in IdsOf(contacts) /\ \E c \in IdsOf(contacts) : ReferrerOf(c) = n
         THEN /\ n \in expandedNodes' <=> n \notin expandedNodes
              /\ expandedNodes' \ {n} = expandedNodes \ {n}
         ELSE expandedNodes' = expandedNodes]_vars

C9_Witness ==
  /\ Mounted
  /\ \E m \in Connected :
       m.referredBy = NULL /\ Len(m.referrals) > 0 /\ m.id \notin expandedNodes
  /\ \E m \in Connected : Len(m.referrals) = 0

\* C10: for fixed member data, visible levels and focus, adding an id to the
\* expanded set never removes a rendered node.
C10_ExpandIsMonotonic ==
  \A n \in Ids \cup {UnknownId} :
    nodes \subseteq
      IdsOf(visibleMembersOf(connectedMembers, expandedNodes \cup {n},
                             visibleLevels, focusedLevel))

C10_Witness ==
  /\ Mounted
  /\ \E n \in Ids \cup {UnknownId} :
       /\ n \notin expandedNodes
       /\ n \in nodes
       /\ nodes # IdsOf(visibleMembersOf(connectedMembers, expandedNodes \cup {n},
                                         visibleLevels, focusedLevel))
\* ---- referral lists ------------------------------------------------------
PositionOf(id) == CHOOSE i \in DOMAIN contacts : contacts[i].id = id

\* C14: the referral list of a member holds exactly the ids of the other
\* members whose referrer is that member, each once, in input order.
C14_ReferralsInInputOrder ==
  Derived =>
    \A m \in Members :
      LET r == m.referrals IN
      /\ {r[k] : k \in DOMAIN r} =
           {c \in IdsOf(contacts) : ReferrerOf(c) = m.id /\ c # m.id}
      /\ \A j, k \in DOMAIN r : j < k => PositionOf(r[j]) < PositionOf(r[k])

C14_Witness ==
  /\ Derived
  /\ \E m \in Members :
       /\ Len(m.referrals) >= 2
       /\ \E c \in IdsOf(contacts) : c \notin {m.referrals[k] : k \in DOMAIN m.referrals}
\* ---- layout of the rendered nodes ----------------------------------------
SiblingsAt(k) ==
  {j \in DOMAIN visibleMembers :
     /\ visibleMembers[j].referredBy = visibleMembers[k].referredBy
     /\ visibleMembers[j].level = visibleMembers[k].level}

RECURSIVE SumOver(_, _)
SumOver(f, S) ==
  IF S = {} THEN 0
  ELSE LET j == CHOOSE e \in S : TRUE IN f[j] + SumOver(f, S \ {j})

\* C16: a rendered member that is the i-th (from 0) of k rendered siblings
\* (same referrer, same level) is placed at
\* x = 300 + (i - (k-1)/2)*200 - 20*level and y = 40 + 120*level, so the
\* x-offsets of a sibling group add up to zero and y depends on the level only.
C16_CompactLayout ==
  \A n \in DOMAIN visibleMembers :
    LET m == visibleMembers[n]
        k == Cardinality(SiblingsAt(n))
        i == Cardinality({j \in SiblingsAt(n) : j < n})
        offset == [j \in DOMAIN visibleMembers |->
                     nodePositions[j].x - 300 + 20 * visibleMembers[j].level]
    IN /\ 2 * nodePositions[n].x = 600 + (2 * i - (k - 1)) * 200 - 40 * m.level
       /\ nodePositions[n].y = 40 + 120 * m.level
       /\ SumOver(offset, SiblingsAt(n)) = 0

C16_Witness ==
  /\ Mounted
  /\ \E n \in DOMAIN visibleMembers :
       /\ visibleMembers[n].level >= 1
       /\ Cardinality(SiblingsAt(n)) >= 2
       /\ \E j \in SiblingsAt(n) : j < n
       /\ \E j \in DOMAIN visibleMembers : j \notin SiblingsAt(n)
\* ---- the toggle applied twice --------------------------------------------
ToggleIds == Ids \cup {UnknownId}

HasReferrals(n) ==
  \E m \in Connected : m.id = n /\ Len(m.referrals) > 0

\* C17: with the member data unchanged, toggling the same node id twice
\* gives back the expanded set as it was, for members with referrals, for
\* leaves and for ids that are no member.
C17_ToggleTwiceRestores ==
  Mounted =>
    \A n \in ToggleIds :
      toggledExpansion(connectedMembers,
                       toggledExpansion(connectedMembers, expandedNodes, n), n)
        = expandedNodes

C17_Witness ==
  /\ Mounted
  /\ \E n \in ToggleIds : HasReferrals(n) /\ n \in expandedNodes
  /\ \E n \in ToggleIds : HasReferrals(n) /\ n \notin expandedNodes
  /\ \E n \in IdsOf(connectedMembers) : ~HasReferrals(n) /\ n \in expandedNodes
\* ---- rendered members and their referrers --------------------------------
\* the referrer of m is a connected member whose level is switched on
ShowableParent(m, p) ==
  /\ p \in Connected
  /\ p.id = m.referredBy
  /\ p.level \in visibleLevels

\* C18 as stated: with no focused level, every rendered member at level >= 1
\* whose referrer is a connected member with a visible level has that
\* referrer rendered too.
C18_NoDetachedNode ==
  (Mounted /\ focusedLevel = NULL) =>
    \A m \in Rendered : \A p \in Connected :
      (m.level >= 1 /\ ShowableParent(m, p)) => p \in Rendered

\* C18, amended: with no focused level, every rendered member at level >= 1
\* that is not itself in the expanded set and whose referrer is a connected
\* member with a visible level has that referrer rendered too; a member whose
\* own id is in the expanded set is rendered whether or not its referrer is.
C18_NoDetachedNodeUnlessExpanded ==
  (Mounted /\ focusedLevel = NULL) =>
    /\ \A m \in Rendered : \A p \in Connected :
         (m.level >= 1 /\ m.id \notin expandedNodes /\ ShowableParent(m, p))
           => p \in Rendered
    /\ \A m \in Connected :
         (m.id \in expandedNodes /\ m.level \in visibleLevels) => m \in Rendered

C18_Witness ==
  /\ Mounted
  /\ focusedLevel = NULL
  /\ \E m \in Rendered : \E p \in Rendered :
       /\ m.level >= 2
       /\ m.id \notin expandedNodes
       /\ ShowableParent(m, p)
  /\ \E m \in Connected : m.level \in visibleLevels /\ m \notin Rendered
\* ---- edges under a focused level -----------------------------------------
\* C19: whenever a focused level is set (and the data rendered, which an
\* acyclic referral relation allows), no edge is rendered.
C19_NoEdgesWhenFocused ==
  (Mounted /\ focusedLevel # NULL) => (~HasCycle /\ edges = <<>>)

C19_Witness ==
  /\ Mounted
  /\ focusedLevel # NULL
  /\ \E m \in Rendered : \E p \in Connected : p.id = m.referredBy
  /\ Cardinality(Rendered) >= 2
\* ---- focusing a level ----------------------------------------------------
AtLevel(l) == {m \in Connected : m.level = l}

\* C20: focusOnLevel(L), L not null, sets the focus to L and adds to the
\* expanded set the id of every connected member at level L and of each such
\* member's referrer, removing nothing; focusOnLevel(null) clears the focus
\* and leaves the expanded set as it is; so with the focus cleared again
\* every connected member at level L is rendered when L is a visible level.
C20_FocusExpandsLevel ==
  [][\A l \in LevelInputs \cup {NULL} :
       focusOnLevel(l) =>
         /\ focusedLevel' = l
         /\ IF l = NULL
            THEN expandedNodes' = expandedNodes
            ELSE /\ expandedNodes' =
                      (expandedNodes \cup {m.id : m \in AtLevel(l)})
                        \cup ({m.referredBy : m \in AtLevel(l)} \ {NULL})
                 /\ l \in visibleLevels =>
                      {m.id : m \in AtLevel(l)} \subseteq
                        IdsOf(visibleMembersOf(connectedMembers, expandedNodes',
                                               visibleLevels, NULL))]_vars

C20_Witness ==
  /\ Mounted
  /\ focusedLevel = NULL
  /\ UnknownId \in expandedNodes
  /\ \E m \in Rendered :
       m.level >= 1 /\ m.referredBy = UnknownId /\ m.id \in expandedNodes
\* ---- edit dialog: validation, failures, malformed records ----------------
ValidationToast == "toast: preencha todos os campos obrigatorios"

FailureToasts ==
  {"toast: Erro ao atualizar contato",
   "toast: Erro ao transformar visitante em membro",
   "toast: Erro ao transferir membro para celula"}

InFlight == pending # <<>>

Malformed(c) == c.id = NULL \/ c.name = ""

\* C11: handleSave with an empty name, WhatsApp number or neighborhood in
\* the form shows a failure notification, calls no update, does not set the
\* saving flag and leaves the dialog open.
C11_ValidationAbortsSave ==
  [][(handleSave /\ (form.name = "" \/ form.whatsapp = "" \/ form.neighborhood = ""))
       => /\ calls' = <<ValidationToast>>
          /\ ~InFlight /\ ~InFlight'
          /\ ~saving /\ ~saving'
          /\ open /\ open']_vars

C11_Witness ==
  /\ calls = <<ValidationToast>>
  /\ open
  /\ ~saving
  /\ ~InFlight
  /\ form.name # "" /\ form.whatsapp # "" /\ form.neighborhood = ""

\* C12: when the awaited update of save, transform-to-member or cell
\* transfer fails, a failure notification is shown and nothing else is
\* called (neither onOpenChange(false) nor onContactUpdated), the dialog
\* stays as open as it was, and saving is false again so that the form can
\* be edited and saved again.
C12_FailureKeepsDialog ==
  [][\A i \in 1..MaxInFlight : UpdateRejects(i)
       => /\ Len(calls') = 1 /\ calls'[1] \in FailureToasts
          /\ open' = open
          /\ saving /\ ~saving'
          /\ ~InFlight'
          /\ form' = form]_vars

C12_Witness ==
  /\ calls = <<"toast: Erro ao transferir membro para celula">>
  /\ FormShown
  /\ ~saving
  /\ ENABLED handleTransferCell

\* C13: for a contact whose id or name is missing the edit form is never on
\* screen, and no update is awaited that was issued for such a contact.
C13_MalformedNeverEdited ==
  /\ (open /\ Malformed(contact)) => ~FormShown
  /\ \A i \in DOMAIN pending : ~Malformed(pending[i].contact)

\* ---- edit dialog: the referrer that is saved -----------------------------
\* the awaited save would make its contact its own ancestor
SaveClosesCycle ==
  \E i \in DOMAIN pending :
    /\ pending[i].handler = "handleSave"
    /\ \/ pending[i].data.referred_by = pending[i].contact.id
       \/ pending[i].data.referred_by \in Subtree(pending[i].contact.id)

\* C15: with acyclic contact data, no save is sent that sets a contact's
\* referrer to the contact itself or to one of its descendants.
C15_NoCyclicSaveSent ==
  (Derived /\ ~HasCycle) => ~SaveClosesCycle
\* ---- the expansion after a recomputation ---------------------------------
\* the connected members without referrer, by the contact list cs
ConnectedRootsIn(cs) ==
  {i \in DOMAIN cs :
     /\ cs[i].referred_by = NULL
     /\ \E j \in DOMAIN cs : j # i /\ cs[j].referred_by = cs[i].id}

\* C21: every recomputation of the member lists that gives a non-empty
\* connected list replaces the expanded set by the ids of the first
\* min(3, number of roots) connected members without referrer, in input
\* order, whatever was toggled before; one that gives an empty connected
\* list leaves the expanded set as it is.
C21_RecomputationResetsExpansion ==
  [][\A cs \in FetchedLists :
       ContactsFetched(cs) =>
         IF Len(connectedMembers') > 0
         THEN expandedNodes' =
                {cs[i].id : i \in {r \in ConnectedRootsIn(cs) :
                     Cardinality({q \in ConnectedRootsIn(cs) : q < r}) < 3}}
         ELSE expandedNodes' = expandedNodes]_vars

C21_Witness ==
  /\ Mounted
  /\ Cardinality(ConnectedRootsIn(contacts)) >= 4
  /\ Cardinality(expandedNodes) = 3
  /\ expandedNodes \subseteq {contacts[i].id : i \in ConnectedRootsIn(contacts)}
  /\ \E i \in ConnectedRootsIn(contacts) :
       /\ contacts[i].id \notin expandedNodes
       /\ \A e \in expandedNodes : e < contacts[i].id
  /\ contacts[1].referred_by # NULL
\* ---- edit dialog: one update at a time -----------------------------------
\* C22: at most one update is awaited at any time; saving is true exactly
\* while one is awaited (set before the call, cleared when it settles); and
\* while saving is true save, transform, transfer and cancel cannot be taken.
C22_OneUpdateInFlight ==
  /\ Len(pending) <= 1
  /\ saving <=> InFlight
  /\ saving =>
       /\ ~ENABLED handleSave
       /\ ~ENABLED handleTransformToMember
       /\ ~ENABLED handleTransferCell
       /\ ~ENABLED Cancel

C22_Witness ==
  /\ saving
  /\ FormShown
  /\ showTransferButton
  /\ ~requiredFieldsMissing(form)
  /\ Len(pending) = 1
  /\ pending[1].handler = "handleTransferCell"
\* ---- edit dialog: what a save sends and what follows it ------------------
\* the status the claim gives for a contact c saved with the form cell
StatusRule(c, cell) ==
  IF cell # "" /\ cell # c.cell_id THEN "member"
  ELSE IF cell = "" /\ c.cell_id # "" THEN "pending"
  ELSE c.status

\* C23: the status sent by handleSave is 'member' when the form's cell is
\* non-empty and differs from the contact's cell, 'pending' when the form's
\* cell is empty and the contact has a cell, and the contact's status
\* otherwise; a successful save calls onContactUpdated, if provided, and
\* then closes the dialog, in that order.
C23_SaveStatusAndCompletion ==
  [][/\ \A i \in DOMAIN pending' :
          pending'[i].handler = "handleSave" =>
            pending'[i].data.status =
              StatusRule(pending'[i].contact, pending'[i].data.cell_id)
     /\ \A i \in 1..MaxInFlight :
          (UpdateResolves(i) /\ pending[i].handler = "handleSave") =>
            /\ calls' = IF pending[i].callback
                        THEN <<"onContactUpdated", "onOpenChange(false)">>
                        ELSE <<"onOpenChange(false)">>
            /\ ~open']_vars

C23_Witness ==
  /\ calls = <<"onContactUpdated", "onOpenChange(false)">>
  /\ ~open
  /\ ~saving
  /\ contact.status = "pending"
  /\ contact.cell_id = "c1"
  /\ form.cell_id = "c2"
\* ---- what a view transition leaves alone ---------------------------------
memberData == <<loading, contacts, renderError, connectedMembers, standbyMembers>>

\* C24: toggleLevel changes the visible-level set only, flipping the level
\* (so that a second toggle of the level restores the set); the expansion
\* toggle changes the expanded set only; focusOnLevel changes the focused
\* level and the expanded set only; none of them changes the member data.
C24_ViewTransitionFrames ==
  [][/\ \A l \in LevelInputs :
          toggleLevel(l) =>
            /\ UNCHANGED <<memberData, expandedNodes, focusedLevel>>
            /\ l \in visibleLevels' <=> l \notin visibleLevels
            /\ visibleLevels' \ {l} = visibleLevels \ {l}
            /\ toggledLevels(visibleLevels', l) = visibleLevels
     /\ \A n \in Ids \cup {UnknownId} :
          toggleNodeExpansionCallback(n) =>
            UNCHANGED <<memberData, visibleLevels, focusedLevel>>
     /\ \A l \in LevelInputs \cup {NULL} :
          focusOnLevel(l) =>
            UNCHANGED <<memberData, visibleLevels>>]_vars

C24_Witness ==
  /\ Mounted
  /\ focusedLevel # NULL
  /\ focusedLevel \notin visibleLevels
  /\ visibleLevels # DefaultVisibleLevels
  /\ \E n \in expandedNodes : n \in IdsOf(connectedMembers) /\ HasReferrals(n)
====
